---------------------------- MODULE Spec2Model ----------------------------
(***************************************************************************)
(* Model of the boom-guru image classification service.                    *)
(*                                                                         *)
(* The request handler describe_image accepts a submission, schedules the  *)
(* background task process_image and returns an acknowledgment.  The task  *)
(* fetches the image, runs the dispatch / authenticity / analysis / part   *)
(* classification stages against the model provider, persists the result   *)
(* and posts one callback to the submission's webhook.                     *)
(*                                                                         *)
(* process_image blocks on each external call; the model has one action    *)
(* per external call, which also performs all the computation the code     *)
(* does between that call's return and the next external call.             *)
(***************************************************************************)
EXTENDS Integers, Sequences, FiniteSets, TLC

(***************************************************************************)
(* Bounds of the model (not program constants).                            *)
(***************************************************************************)
NumSessions == 2      \* session identifiers available to the front door
MaxCats == 2          \* longest part_categories list the provider returns

(***************************************************************************)
(* Program constants.                                                      *)
(***************************************************************************)
PART_CLASSIFIER_ATTEMPTS == 3

\* The allow-list of config.py (Turkish letters written in ASCII).
VALID_PART_CATEGORIES ==
    { "ATASMANLAR-DIGER", "ATASMANLAR-KIRICI", "ATASMANLAR-KOVA",
      "HIDROLIK PARCALARI - HORTUM / RAKOR", "HIDROLIK PARCALARI - SILINDIR",
      "ELEKTIRIK VE DIGER PARCALAR", "SASE PARCALARI", "YURUYUS TAKIMI",
      "LASTIK" }

\* The fixed answer of the category "other".
REJECTION_MESSAGE ==
    "Yuklenen gorsel bir is makinesi veya hata kodu olarak tanimlanamadi ya da "
    \o "gercek bir fotograf icermiyor (or. dijital render, cizim). Lutfen gercek bir "
    \o "makine ya da hata ekrani fotografi iceren alakali bir gorsel yukleyin."

NOT_FOUND == "Description not found"

Sessions == 1 .. NumSessions

(***************************************************************************)
(* Python values.  A JSON / Python value is a record [t, v] where t is the *)
(* Python type and v the payload of that type.                             *)
(***************************************************************************)
JNull == [t |-> "null", v |-> "None"]
JStr(s) == [t |-> "str", v |-> s]
JNum(n) == [t |-> "num", v |-> n]
JBool(b) == [t |-> "bool", v |-> b]
JList(l) == [t |-> "list", v |-> l]
JObj(f) == [t |-> "obj", v |-> f]
\* a local variable that has not been assigned yet
Unset == [t |-> "unset", v |-> "unset"]

(***************************************************************************)
(* Exceptions and results.  A call either returns a value or raises.       *)
(***************************************************************************)
Exc(cls, msg) == [cls |-> cls, msg |-> msg]
NoExc == Exc("none", "")

Ok(val) == [ok |-> TRUE, val |-> val, exc |-> NoExc]
Raise(e) == [ok |-> FALSE, val |-> JNull, exc |-> e]

\* An except clause naming base catches exception class cls.
IsSubclass(cls, base) ==
    \/ base = "Exception"
    \/ cls = base
    \/ (cls = "JSONDecodeError" /\ base = "ValueError")

\* str(exc)
ExcStr(e) == e.msg

(***************************************************************************)
(* Text.  A Python string that carries a model response is a sequence of   *)
(* tokens: the markdown fence opener (three backquotes followed by json),   *)
(* the bare fence marker (three backquotes), the newline,                  *)
(* the space, a serialised JSON value, or prose that is not JSON.          *)
(***************************************************************************)
Tok(kind, val) == [t |-> kind, v |-> val]
FenceJson == Tok("fence_json", JNull)
Fence == Tok("fence", JNull)
NL == Tok("nl", JNull)
SP == Tok("sp", JNull)
JsonDoc(j) == Tok("json", j)
\* the Python string str as a text
TextOf(str) == <<Tok("prose", JStr(str))>>
EmptyText == <<>>

Bare(j) == <<JsonDoc(j)>>
Fenced(j) == <<FenceJson, NL, JsonDoc(j), NL, Fence>>

IsWs(tok) == tok.t \in {"nl", "sp"}

\* text.replace(marker, "") for every marker of kinds
Replace(text, kinds) == SelectSeq(text, LAMBDA tok : tok.t \notin kinds)

SetMin(S) == CHOOSE m \in S : \A n \in S : m <= n
SetMax(S) == CHOOSE m \in S : \A n \in S : n <= m

\* text.strip()
StrStrip(text) ==
    LET solid == {i \in 1 .. Len(text) : ~IsWs(text[i])}
    IN  IF solid = {} THEN <<>> ELSE SubSeq(text, SetMin(solid), SetMax(solid))

\* json.loads: white space around the document is ignored; anything but
\* exactly one JSON document raises JSONDecodeError.
json_loads(text) ==
    LET doc == StrStrip(text)
    IN  IF Len(doc) = 1 /\ doc[1].t = "json"
        THEN Ok(doc[1].v)
        ELSE Raise(Exc("JSONDecodeError", "Expecting value"))

\* value.get(key, default): defined on dict only
DictGet(j, key, default) ==
    IF j.t = "obj"
    THEN Ok(IF key \in DOMAIN j.v THEN j.v[key] ELSE default)
    ELSE Raise(Exc("AttributeError", "object has no attribute 'get'"))

\* whether a value may be looked up in a set (lists and dicts are unhashable)
Hashable(j) == j.t \notin {"list", "obj"}

(***************************************************************************)
(* Outcomes of the external collaborators.  ok = FALSE is a transport      *)
(* error (the library call raises); status is the HTTP status; text is the *)
(* content of the provider's message.                                      *)
(***************************************************************************)
Outcome(ok, status, text) == [ok |-> ok, status |-> status, text |-> text]
NoOutcome == Outcome(FALSE, 0, EmptyText)
\* the entry of a call that has not been made
NotAsked == Outcome(FALSE, -1, EmptyText)
ProviderText(text) == Outcome(TRUE, 200, text)
ProviderDown == Outcome(FALSE, 0, EmptyText)

(***************************************************************************)
(* Model Gateway (openai_client.call_openai_api).  kwargs is the set of    *)
(* argument names the caller binds.                                        *)
(***************************************************************************)
call_openai_api_params == {"messages", "session_id"}

\* Python binds the arguments before the body runs
BindsOpenai(kwargs) == kwargs \subseteq call_openai_api_params

call_openai_api(kwargs, provider) ==
    IF ~BindsOpenai(kwargs)
    THEN Raise(Exc("TypeError",
                   "call_openai_api() got an unexpected keyword argument"))
    ELSE IF provider.ok
         THEN Ok(provider.text)
         ELSE Raise(Exc("Exception", "OpenAI API call failed"))

\* whether the call reaches the provider
ReachesProvider(kwargs) == BindsOpenai(kwargs)

(***************************************************************************)
(* Submissions (models.ImageRequest).  The string "None" stands for an     *)
(* absent optional field.                                                  *)
(***************************************************************************)
Request(lang, form, question) ==
    [image_url |-> "http://img/a.jpg", image_id |-> "img-1",
     serial_number |-> "SN-1", form_id |-> form, question_id |-> question,
     webhook_url |-> "http://hook", language |-> lang]
NoRequest == Request("none", "None", "None")
Requests == {Request("tr", "form-1", "q-1"), Request("xx", "None", "None")}

language_map ==
    [l \in {"en", "tr", "ru", "ka", "az", "kk", "ky"} |->
        CASE l = "en" -> "English" [] l = "tr" -> "Turkce" [] l = "ru" -> "Russian"
          [] l = "ka" -> "Georgian" [] l = "az" -> "Azerbaijani"
          [] l = "kk" -> "Kazakh" [] l = "ky" -> "Kyrgyz"]

\* language_map.get(request.language, "English")
language_name(lang) ==
    IF lang \in DOMAIN language_map THEN language_map[lang] ELSE "English"

(***************************************************************************)
(* State.                                                                  *)
(*   request     the submission of each session                            *)
(*   ack         the response describe_image returned for the session      *)
(*   sess        the local variables and position of the session           *)
(*   inp         the outcome of the session's latest external call         *)
(*   part_oracle what the provider answers to part-classifier attempt a    *)
(*   calls       the external calls each session has made, in order        *)
(*   store       the rows inserted into the BOOM_GURU table                *)
(* The fields reached_save, escaped and wellformed of sess are history     *)
(* variables: line 373 was reached, an exception left process_image, and   *)
(* every external response so far honoured its contract.                   *)
(*   posts       the callback POSTs each session has attempted             *)
(***************************************************************************)
VARIABLES request, ack, sess, inp, part_oracle, calls, store, posts

vars == <<request, ack, sess, inp, part_oracle, calls, store, posts>>

CallbackPayload(sid, req, answer, status, cats) ==
    [session_id |-> sid, image_id |-> req.image_id,
     serial_number |-> req.serial_number, form_id |-> req.form_id,
     question_id |-> req.question_id, answer |-> answer, status |-> status,
     part_categories |-> cats]
NoPayload == CallbackPayload(0, NoRequest, EmptyText, "none", <<>>)

Ack(sid, req) ==
    [session_id |-> sid, image_id |-> req.image_id,
     serial_number |-> req.serial_number, form_id |-> req.form_id,
     question_id |-> req.question_id, webhook_url |-> req.webhook_url,
     language |-> req.language, status |-> "processing"]
NoAck == [Ack(0, NoRequest) EXCEPT !.status = "none"]

\* exc is the exception bound by the outer except clause; fetched records
\* the answer of the image host to requests.get
InitLocals ==
    [handler |-> "idle", pc |-> "none", category |-> Unset,
     is_real_photo |-> TRUE, final_answer |-> EmptyText,
     part_categories |-> <<>>, aggregated_categories |-> <<>>, attempt |-> 0,
     final_json_str |-> Unset, callback_payload |-> NoPayload,
     exc |-> NoExc, fetched |-> NotAsked,
     reached_save |-> FALSE, escaped |-> FALSE, wellformed |-> TRUE]

Init ==
    /\ request = [s \in Sessions |-> NoRequest]
    /\ ack = [s \in Sessions |-> NoAck]
    /\ sess = [s \in Sessions |-> InitLocals]
    /\ inp = [s \in Sessions |-> [stage |-> "none", out |-> NoOutcome]]
    /\ part_oracle = [s \in Sessions |->
                        [a \in 1 .. PART_CLASSIFIER_ATTEMPTS |-> NotAsked]]
    /\ calls = [s \in Sessions |-> <<>>]
    /\ store = {}
    /\ posts = [s \in Sessions |-> <<>>]

(***************************************************************************)
(* The pipeline boundary: the outer except clause of process_image.        *)
(***************************************************************************)
\* variant: the boundary catches value errors only
OuterCatches_narrow(e) == IsSubclass(e.cls, "ValueError")

OuterCatches(e) == IsSubclass(e.cls, "Exception")

FailurePayload_generic(s, e) ==
    CallbackPayload(s, request[s], TextOf("Internal error"), "failed", <<>>)

FailurePayload(s, e) ==
    CallbackPayload(s, request[s], TextOf(ExcStr(e)), "failed", <<>>)

Failed_restart(s, loc, e) ==
    IF OuterCatches(e)
    THEN [loc EXCEPT !.exc = e, !.pc = "fetch"]
    ELSE [loc EXCEPT !.escaped = TRUE, !.pc = "crashed"]

\* an exception e raised inside the outer try block
Failed(s, loc, e) ==
    IF OuterCatches(e)
    THEN [loc EXCEPT !.exc = e, !.callback_payload = FailurePayload(s, e),
                     !.pc = "callback"]
    ELSE [loc EXCEPT !.escaped = TRUE, !.pc = "crashed"]

\* The response contract of each stage: the image is served with status
\* 200, the provider answers, and prompts that ask for JSON get a JSON
\* object of the shape the prompt asks for.
WellFormed(stage, out) ==
    LET doc == json_loads(StrStrip(Replace(out.text, {"fence_json", "fence", "nl"})))
        obj == doc.val.v
        HasKey(key) == doc.ok /\ doc.val.t = "obj" /\ key \in DOMAIN obj
    IN  CASE stage = "image" -> out.ok /\ out.status = 200
          [] stage \in {"general", "humanize"} -> out.ok
          [] stage = "dispatcher" ->
                /\ out.ok /\ HasKey("category")
                /\ obj["category"] \in {JStr("working_machine"), JStr("error_code"),
                                        JStr("other")}
          [] stage = "authenticity" ->
                out.ok /\ HasKey("is_real_photo") /\ obj["is_real_photo"].t = "bool"
          [] stage = "error_codes" ->
                /\ out.ok /\ HasKey("errors") /\ obj["errors"].t = "list"
                /\ \A i \in 1 .. Len(obj["errors"].v) :
                      LET e == obj["errors"].v[i]
                      IN  /\ e.t = "obj" /\ {"code", "type"} \subseteq DOMAIN e.v
                          /\ e.v["code"].t = "str"
                          /\ e.v["type"] \in {JStr("CID-FMI"), JStr("EID")}
          [] stage = "part" ->
                /\ out.ok /\ HasKey("part_categories")
                /\ obj["part_categories"].t = "list"
                /\ \A i \in 1 .. Len(obj["part_categories"].v) :
                      LET c == obj["part_categories"].v[i]
                      IN  c.t = "str" /\ c.v \in VALID_PART_CATEGORIES
          [] OTHER -> TRUE

\* a step of session s: the external call of stage returned out (made says
\* whether the call left the process) and the locals become loc
Advance_shared(s, stage, out, made, loc) ==
    /\ sess' = [sess EXCEPT ![s] =
                    [loc EXCEPT !.wellformed = @ /\ WellFormed(stage, out)]]
    /\ inp' = [t \in Sessions |-> [stage |-> stage, out |-> out]]
    /\ calls' = [calls EXCEPT ![s] = IF made THEN Append(@, stage) ELSE @]

Advance(s, stage, out, made, loc) ==
    /\ sess' = [sess EXCEPT ![s] =
                    [loc EXCEPT !.wellformed = @ /\ WellFormed(stage, out)]]
    /\ inp' = [inp EXCEPT ![s] = [stage |-> stage, out |-> out]]
    /\ calls' = [calls EXCEPT ![s] = IF made THEN Append(@, stage) ELSE @]

(***************************************************************************)
(* Front door (describe_image) and the background task runner.             *)
(***************************************************************************)
\* session_id = uuid4(); background_tasks.add_task(process_image, ...)
AddTask(s, req) ==
    /\ sess[s].handler = "idle"
    /\ \A o \in Sessions : o < s => sess[o].handler # "idle"
    /\ request' = [request EXCEPT ![s] = req]
    /\ sess' = [sess EXCEPT ![s] = [@ EXCEPT !.handler = "added", !.pc = "fetch"]]
    /\ UNCHANGED <<ack, inp, part_oracle, calls, store, posts>>

\* return {..., "status": "processing"}
ReturnAck(s) ==
    /\ sess[s].handler = "added"
    /\ ack' = [ack EXCEPT ![s] = Ack(s, request[s])]
    /\ sess' = [sess EXCEPT ![s] = [@ EXCEPT !.handler = "returned"]]
    /\ UNCHANGED <<request, inp, part_oracle, calls, store, posts>>

\* variant: the task is started as soon as it is added
TaskMayStart_eager(s) == sess[s].handler \in {"added", "returned"}

\* the framework runs the background tasks of a request after its response
TaskMayStart(s) == sess[s].handler = "returned"

(***************************************************************************)
(* Stage 1: image acquisition.                                             *)
(***************************************************************************)
FetchOutcomes ==
    {Outcome(TRUE, 200, EmptyText), Outcome(TRUE, 404, EmptyText),
     Outcome(FALSE, 0, EmptyText)}

\* requests.get raises on a transport error; line 45 raises on a status
\* other than 200
FetchResult_lenient(out) ==
    IF ~out.ok THEN Raise(Exc("ConnectionError", "Connection refused"))
    ELSE Ok(JNull)

FetchResult(out) ==
    IF ~out.ok THEN Raise(Exc("ConnectionError", "Connection refused"))
    ELSE IF out.status # 200 THEN Raise(Exc("Exception", "Image download failed"))
    ELSE Ok(JNull)

FetchImage(s, out) ==
    /\ sess[s].pc = "fetch"
    /\ TaskMayStart(s)
    /\ LET r == FetchResult(out)
           got == [sess[s] EXCEPT !.fetched = out]
           loc == IF r.ok THEN [got EXCEPT !.pc = "dispatch"]
                          ELSE Failed(s, got, r.exc)
       IN  Advance(s, "image", out, TRUE, loc)
    /\ UNCHANGED <<request, ack, part_oracle, store, posts>>

(***************************************************************************)
(* Strings the model compares after str.strip() and str.lower().  The      *)
(* tables list the strings of the input sets that these functions change.  *)
(***************************************************************************)
StripStr(str) ==
    CASE str = " Yes " -> "Yes"
      [] str = " LASTIK " -> "LASTIK"
      [] str = "  " -> ""
      [] OTHER -> str

LowerStr(str) ==
    CASE str = "Yes" -> "yes"
      [] str = "TRUE" -> "true"
      [] OTHER -> str

(***************************************************************************)
(* Category branch: the code between the authenticity gate and the next    *)
(* external call (lines 152-264).                                          *)
(***************************************************************************)
WORKING_MACHINE == JStr("working_machine")
ERROR_CODE == JStr("error_code")
OTHER_CATEGORY == JStr("other")

\* if category in {"working_machine", "error_code"}: the part classifier
\* loop starts, otherwise the result is persisted
PartGate(s, loc) ==
    IF ~Hashable(loc.category)
    THEN Failed(s, loc, Exc("TypeError", "unhashable type"))
    ELSE IF loc.category \in {WORKING_MACHINE, ERROR_CODE}
         THEN [loc EXCEPT !.aggregated_categories = <<>>, !.attempt = 1,
                          !.pc = "part"]
         ELSE [loc EXCEPT !.pc = "save"]

Branch_noextract(s, loc) ==
    IF loc.category = OTHER_CATEGORY
    THEN PartGate(s, [loc EXCEPT !.final_answer = TextOf(REJECTION_MESSAGE)])
    ELSE [loc EXCEPT !.pc = "general"]

\* if category == "other" / elif category == "error_code" / else
Branch(s, loc) ==
    IF loc.category = OTHER_CATEGORY
    THEN PartGate(s, [loc EXCEPT !.final_answer = TextOf(REJECTION_MESSAGE)])
    ELSE IF loc.category = ERROR_CODE
         THEN [loc EXCEPT !.pc = "error_codes"]
         ELSE [loc EXCEPT !.pc = "general"]

(***************************************************************************)
(* Stage 2: dispatch (lines 54-90).                                        *)
(***************************************************************************)
CategoryDoc(val) == JObj("category" :> val)

DispatcherOutcomes ==
    { ProviderDown,
      ProviderText(Bare(CategoryDoc(WORKING_MACHINE))),
      ProviderText(Fenced(CategoryDoc(WORKING_MACHINE))),
      ProviderText(Fenced(CategoryDoc(ERROR_CODE))),
      ProviderText(Bare(CategoryDoc(OTHER_CATEGORY))),
      ProviderText(TextOf("This looks like an excavator.")),
      ProviderText(Bare(JList(<<>>))),
      ProviderText(Bare(JObj(<<>>))),
      ProviderText(Bare(CategoryDoc(JNull))),
      ProviderText(Bare(CategoryDoc(JStr("vehicle")))),
      ProviderText(Bare(CategoryDoc(JList(<<WORKING_MACHINE>>)))) }

\* the try / except json.JSONDecodeError block around the dispatcher parse
DispatchCategory(text) ==
    LET parsed == json_loads(Replace(text, {"fence_json", "fence", "nl"}))
        got == IF parsed.ok THEN DictGet(parsed.val, "category", JNull)
                            ELSE parsed
    IN  IF got.ok THEN got
        ELSE IF IsSubclass(got.exc.cls, "JSONDecodeError")
             THEN Ok(WORKING_MACHINE)
             ELSE got

Dispatch(s, out) ==
    /\ sess[s].pc = "dispatch"
    /\ LET kwargs == {"messages", "session_id"}
           r == call_openai_api(kwargs, out)
           c == IF r.ok THEN DispatchCategory(r.val) ELSE r
           loc0 == [sess[s] EXCEPT !.category = c.val,
                                   !.final_answer = EmptyText,
                                   !.part_categories = <<>>]
           loc == IF ~c.ok THEN Failed(s, sess[s], c.exc)
                  ELSE IF c.val = WORKING_MACHINE
                       THEN [loc0 EXCEPT !.pc = "authenticity"]
                       ELSE Branch(s, loc0)
       IN  Advance(s, "dispatcher", out, ReachesProvider(kwargs), loc)
    /\ UNCHANGED <<request, ack, part_oracle, store, posts>>

(***************************************************************************)
(* Stage 3: authenticity gate (lines 90-150).                              *)
(***************************************************************************)
RealDoc(val) == JObj("is_real_photo" :> val)

AuthenticityOutcomes ==
    { ProviderDown,
      ProviderText(TextOf("The photo looks real.")),
      ProviderText(Bare(JList(<<>>))),
      ProviderText(Bare(JObj(<<>>))),
      ProviderText(Bare(RealDoc(JBool(TRUE)))),
      ProviderText(Fenced(RealDoc(JBool(FALSE)))),
      ProviderText(Bare(RealDoc(JStr(" Yes ")))),
      ProviderText(Bare(RealDoc(JStr("false")))),
      ProviderText(Bare(RealDoc(JNum(0)))),
      ProviderText(Bare(RealDoc(JNum(1)))),
      ProviderText(Bare(RealDoc(JNull))),
      ProviderText(Bare(RealDoc(JStr("TRUE")))),
      ProviderText(Bare(RealDoc(JStr("1")))),
      ProviderText(Bare(RealDoc(JStr("unknown")))),
      ProviderText(Bare(RealDoc(JList(<<JBool(FALSE)>>)))),
      ProviderText(Bare(RealDoc(JObj(<<>>)))) }

CoerceReal_truthy(val, current) ==
    CASE val.t = "bool" -> val.v
      [] val.t = "str" -> val.v # ""
      [] val.t = "num" -> val.v # 0
      [] OTHER -> current

\* the isinstance chain of lines 117-126; current is the value is_real_photo
\* has when no branch assigns it
CoerceReal(val, current) ==
    CASE val.t = "bool" -> val.v
      [] val.t = "str" -> LowerStr(StripStr(val.v)) \in {"true", "yes", "1"}
      [] val.t = "num" -> val.v # 0
      [] OTHER -> current

\* variant: only a JSON decoding error keeps the photo real
OnAuthError_strict(e) == IsSubclass(e.cls, "JSONDecodeError")

\* is_real_photo after an exception e left the try block: both except
\* clauses (lines 132-144) leave or set it True
OnAuthError(e) ==
    IF IsSubclass(e.cls, "JSONDecodeError") THEN TRUE
    ELSE IF IsSubclass(e.cls, "Exception") THEN TRUE
    ELSE TRUE

\* the value of is_real_photo after the try block of lines 92-144
AuthenticityIsReal(out) ==
    LET kwargs == {"messages", "session_id"}
        r == call_openai_api(kwargs, out)
        parsed == IF r.ok
                  THEN json_loads(StrStrip(Replace(r.val, {"fence_json", "fence", "nl"})))
                  ELSE r
        got == IF parsed.ok THEN DictGet(parsed.val, "is_real_photo", JBool(TRUE))
                            ELSE parsed
    IN  IF got.ok THEN CoerceReal(got.val, TRUE) ELSE OnAuthError(got.exc)

Authenticity(s, out) ==
    /\ sess[s].pc = "authenticity"
    /\ LET real == AuthenticityIsReal(out)
           loc0 == [sess[s] EXCEPT !.is_real_photo = real,
                                   !.category = IF real THEN @ ELSE OTHER_CATEGORY]
       IN  Advance(s, "authenticity", out,
                   ReachesProvider({"messages", "session_id"}), Branch(s, loc0))
    /\ UNCHANGED <<request, ack, part_oracle, store, posts>>

(***************************************************************************)
(* Stage 4b: general analysis (lines 241-258).                             *)
(***************************************************************************)
AnswerOutcomes ==
    { ProviderDown,
      ProviderText(TextOf("The machine is a wheel loader with a worn tyre.")),
      ProviderText(TextOf("Fault: engine speed sensor, data erratic.")) }

AnswerStep_swallow(s, out) ==
    LET r == call_openai_api({"messages", "session_id"}, out)
    IN  PartGate(s, [sess[s] EXCEPT !.final_answer = IF r.ok THEN r.val ELSE EmptyText])

\* final_answer = call_openai_api(...), then the part-classifier gate
AnswerStep(s, out) ==
    LET r == call_openai_api({"messages", "session_id"}, out)
    IN  IF r.ok THEN PartGate(s, [sess[s] EXCEPT !.final_answer = r.val])
                ELSE Failed(s, sess[s], r.exc)

General(s, out) ==
    /\ sess[s].pc = "general"
    /\ Advance(s, "general", out, ReachesProvider({"messages", "session_id"}),
               AnswerStep(s, out))
    /\ UNCHANGED <<request, ack, part_oracle, store, posts>>

(***************************************************************************)
(* Stage 4a: error extraction and enrichment (lines 159-224).              *)
(***************************************************************************)
\* rows of the reference spreadsheets
cid_description == (100 :> "Engine Speed Sensor")
fmi_description == (2 :> "Data erratic")
eid_description == (55 :> "Low engine oil pressure")

\* code.split("-") for the code strings of the input set
SplitDash(str) ==
    CASE str = "100-2" -> <<"100", "2">>
      [] str = "999-2" -> <<"999", "2">>
      [] str = "100-9" -> <<"100", "9">>
      [] str = "1-2-3" -> <<"1", "2", "3">>
      [] OTHER -> <<str>>

\* int(str) for the strings of the input set
ParseInt(str) ==
    CASE str = "100" -> Ok(100) [] str = "999" -> Ok(999) [] str = "2" -> Ok(2)
      [] str = "9" -> Ok(9) [] str = "55" -> Ok(55) [] str = "1" -> Ok(1)
      [] str = "3" -> Ok(3)
      [] OTHER -> Raise(Exc("ValueError", "invalid literal for int()"))

\* table.loc[table.KEY == key, "Description"].iloc[0]
Lookup(table, key) ==
    IF key \in DOMAIN table THEN Ok(table[key])
    ELSE Raise(Exc("IndexError", "single positional indexer is out-of-bounds"))

\* error["name"] = name
SetName(entry, name) ==
    JObj([k \in DOMAIN entry.v \cup {"name"} |->
            IF k = "name" THEN JStr(name) ELSE entry.v[k]])

\* the try block of lines 201-209
CidFmiName(code) ==
    IF code.t # "str"
    THEN Raise(Exc("AttributeError", "object has no attribute 'split'"))
    ELSE LET parts == SplitDash(code.v)
             cid == IF Len(parts) >= 1 THEN ParseInt(parts[1]) ELSE Ok(0)
             fmi == IF Len(parts) >= 2 THEN ParseInt(parts[2]) ELSE Ok(0)
         IN  IF ~cid.ok THEN cid
             ELSE IF Len(parts) < 2
                  THEN Raise(Exc("ValueError", "not enough values to unpack"))
             ELSE IF ~fmi.ok THEN fmi
             ELSE IF Len(parts) > 2
                  THEN Raise(Exc("ValueError", "too many values to unpack"))
             ELSE LET cid_desc == Lookup(cid_description, cid.val)
                      fmi_desc == Lookup(fmi_description, fmi.val)
                  IN  IF ~cid_desc.ok THEN cid_desc
                      ELSE IF ~fmi_desc.ok THEN fmi_desc
                      ELSE Ok(cid_desc.val \o " - " \o fmi_desc.val)

\* the try block of lines 213-218
EidName(code) ==
    LET eid == CASE code.t = "str" -> ParseInt(code.v)
                 [] code.t = "num" -> Ok(code.v)
                 [] code.t = "bool" -> Ok(IF code.v THEN 1 ELSE 0)
                 [] OTHER -> Raise(Exc("TypeError", "int() argument must be a string or a number"))
    IN  IF ~eid.ok THEN eid ELSE Lookup(eid_description, eid.val)

\* except (ValueError, IndexError): error["name"] = "Description not found"
NameOrNotFound(entry, named) ==
    IF named.ok THEN Ok(SetName(entry, named.val))
    ELSE IF IsSubclass(named.exc.cls, "ValueError")
            \/ IsSubclass(named.exc.cls, "IndexError")
         THEN Ok(SetName(entry, NOT_FOUND))
         ELSE named

\* the body of the loop over error_list (lines 199-220)
Enrich(entry) ==
    LET code == DictGet(entry, "code", JStr(""))
        type == DictGet(entry, "type", JNull)
    IN  IF ~code.ok THEN code
        ELSE IF type.val = JStr("CID-FMI")
             THEN NameOrNotFound(entry, CidFmiName(code.val))
        ELSE IF type.val = JStr("EID")
             THEN NameOrNotFound(entry, EidName(code.val))
        ELSE Ok(entry)

\* for error in error_list: the items Python iterates over
IterItems(j) ==
    CASE j.t = "list" -> Ok(j.v)
      [] j.t = "obj" ->
           Ok(IF DOMAIN j.v = {} THEN <<>>
              ELSE <<JStr(CHOOSE k \in DOMAIN j.v : TRUE)>>)
      [] j.t = "str" -> Ok(IF j.v = "" THEN <<>> ELSE <<JStr(j.v)>>)
      [] OTHER -> Raise(Exc("TypeError", "object is not iterable"))

RECURSIVE EnrichAll(_, _)
\* the loop of lines 198-220: the enriched entries, or the first exception
EnrichAll(items, done) ==
    IF items = <<>> THEN Ok(done)
    ELSE LET e == Enrich(Head(items))
         IN  IF e.ok THEN EnrichAll(Tail(items), Append(done, e.val)) ELSE e

ErrorEntry(code, type) == JObj(("code" :> code) @@ ("type" :> JStr(type)))
ErrorsDoc(errors, info) == JObj(("errors" :> errors) @@ ("additional_info" :> info))

ExtractionOutcomes ==
    { ProviderDown,
      ProviderText(TextOf("The screen shows code 100-2.")),
      ProviderText(Bare(JList(<<>>))),
      ProviderText(Bare(JObj(<<>>))),
      ProviderText(Fenced(ErrorsDoc(JList(<<ErrorEntry(JStr("100-2"), "CID-FMI")>>),
                                    JStr("engine warning lamp")))),
      ProviderText(Bare(ErrorsDoc(JList(<<ErrorEntry(JStr("55"), "EID"),
                                          ErrorEntry(JStr("999-2"), "CID-FMI"),
                                          ErrorEntry(JStr("E12"), "OTHER")>>),
                                  JNull))),
      ProviderText(Bare(ErrorsDoc(JList(<<ErrorEntry(JStr("1-2-3"), "CID-FMI"),
                                          ErrorEntry(JStr("abc"), "EID")>>),
                                  JNull))),
      ProviderText(Bare(ErrorsDoc(JList(<<ErrorEntry(JNum(100), "CID-FMI")>>), JNull))),
      ProviderText(Bare(ErrorsDoc(JList(<<JObj("type" :> JStr("CID-FMI")),
                                          ErrorEntry(JStr(""), "EID")>>),
                                  JNull))),
      ProviderText(Bare(ErrorsDoc(JList(<<ErrorEntry(JNull, "EID")>>), JNull))),
      ProviderText(Bare(ErrorsDoc(JList(<<JStr("100-2")>>), JNull))),
      ProviderText(Bare(ErrorsDoc(JNull, JNull))) }

\* lines 176-224: the JSON handed to the humanize prompt, or the exception
\* that leaves the block
FinalJson(text) ==
    LET parsed == json_loads(Replace(text, {"fence_json", "fence", "nl"}))
        errors == IF parsed.ok THEN DictGet(parsed.val, "errors", JList(<<>>))
                               ELSE parsed
        info == IF errors.ok THEN DictGet(parsed.val, "additional_info", JNull)
                             ELSE errors
        error_list == IF info.ok THEN errors.val ELSE JList(<<>>)
        additional_info == IF info.ok THEN info.val ELSE JStr("")
        items == IterItems(error_list)
        enriched == IF items.ok THEN EnrichAll(items.val, <<>>) ELSE items
    IN  IF ~info.ok /\ ~IsSubclass(info.exc.cls, "JSONDecodeError") THEN info
        ELSE IF ~enriched.ok THEN enriched
        ELSE Ok(JObj(("errors" :> (IF error_list.t = "list"
                                   THEN JList(enriched.val) ELSE error_list))
                     @@ ("additional_info" :> additional_info)))

ErrorCodes(s, out) ==
    /\ sess[s].pc = "error_codes"
    /\ LET kwargs == {"messages", "session_id"}
           r == call_openai_api(kwargs, out)
           j == IF r.ok THEN FinalJson(r.val) ELSE r
           loc == IF j.ok
                  THEN [sess[s] EXCEPT !.final_json_str = j.val, !.pc = "humanize"]
                  ELSE Failed(s, sess[s], j.exc)
       IN  Advance(s, "error_codes", out, ReachesProvider(kwargs), loc)
    /\ UNCHANGED <<request, ack, part_oracle, store, posts>>

\* lines 226-239, then the part-classifier gate
Humanize(s, out) ==
    /\ sess[s].pc = "humanize"
    /\ Advance(s, "humanize", out, ReachesProvider({"messages", "session_id"}),
               AnswerStep(s, out))
    /\ UNCHANGED <<request, ack, part_oracle, store, posts>>

(***************************************************************************)
(* Stage 5: part classification (lines 258-371).                           *)
(***************************************************************************)
PartsDoc(val) == JObj("part_categories" :> val)

\* the lists of valid categories the provider may return
PartNames == {"LASTIK", "SASE PARCALARI"}
PartLists == UNION {[1 .. n -> {JStr(c) : c \in PartNames}] : n \in 0 .. MaxCats}

PartOutcomes ==
    { ProviderDown,
      ProviderText(TextOf("The part is a tyre.")),
      ProviderText(Bare(JList(<<JStr("LASTIK")>>))),
      ProviderText(Bare(JObj(<<>>))),
      ProviderText(Bare(PartsDoc(JStr("LASTIK")))),
      ProviderText(Bare(PartsDoc(JNum(7)))),
      ProviderText(Fenced(PartsDoc(JList(<<JStr("MOTOR"), JStr(" LASTIK "),
                                           JNum(7), JStr("  ")>>)))) }
    \cup {ProviderText(Fenced(PartsDoc(JList(l)))) : l \in PartLists}

RECURSIVE Validated(_, _)
\* the loop of lines 327-347 over raw_part_categories
Validated(items, validated_categories) ==
    IF items = <<>> THEN validated_categories
    ELSE LET item == Head(items)
             normalized == StripStr(item.v)
             keep == /\ item.t = "str"
                     /\ normalized # ""
                     /\ normalized \in VALID_PART_CATEGORIES
                     /\ \A i \in 1 .. Len(validated_categories) :
                            validated_categories[i] # normalized
         IN  Validated(Tail(items),
                       IF keep THEN Append(validated_categories, normalized)
                               ELSE validated_categories)

RECURSIVE Merged(_, _)
\* the loop of lines 349-351
Merged(aggregated_categories, validated_categories) ==
    IF validated_categories = <<>> THEN aggregated_categories
    ELSE LET category_name == Head(validated_categories)
             seen == \E i \in 1 .. Len(aggregated_categories) :
                        aggregated_categories[i] = category_name
         IN  Merged(IF seen THEN aggregated_categories
                            ELSE Append(aggregated_categories, category_name),
                    Tail(validated_categories))

\* the arguments the part classifier loop binds in its gateway call
part_call_kwargs == {"messages", "session_id", "temperature"}

\* one iteration of the loop of lines 265-351: the aggregated list after it,
\* or the exception that leaves the loop
PartIteration(out, aggregated_categories) ==
    LET r == call_openai_api(part_call_kwargs, out)
        parsed == IF r.ok
                  THEN json_loads(StrStrip(Replace(r.val, {"fence_json", "fence"})))
                  ELSE r
        got == IF parsed.ok THEN DictGet(parsed.val, "part_categories", JList(<<>>))
                            ELSE parsed
        raw == IF got.val.t = "str" THEN JList(<<got.val>>) ELSE got.val
    IN  IF ~r.ok THEN Ok(aggregated_categories)
        ELSE IF ~parsed.ok THEN Ok(aggregated_categories)
        ELSE IF ~got.ok THEN got
        ELSE IF raw.t # "list" THEN Ok(aggregated_categories)
        ELSE Ok(Merged(aggregated_categories, Validated(raw.v, <<>>)))

\* variant: the loop does not advance
NextAttempt_stuck(attempt) == attempt

\* for attempt in range(1, PART_CLASSIFIER_ATTEMPTS + 1)
NextAttempt(attempt) == attempt + 1

PartAttempt(s, out) ==
    /\ sess[s].pc = "part"
    /\ sess[s].attempt <= PART_CLASSIFIER_ATTEMPTS
    /\ LET it == PartIteration(out, sess[s].aggregated_categories)
           last == NextAttempt(sess[s].attempt) > PART_CLASSIFIER_ATTEMPTS
           loc == IF ~it.ok
                  THEN [sess[s] EXCEPT !.part_categories = <<>>, !.pc = "save"]
                  ELSE IF last
                       THEN [sess[s] EXCEPT !.aggregated_categories = it.val,
                                            !.part_categories = it.val,
                                            !.attempt = NextAttempt(@),
                                            !.pc = "save"]
                       ELSE [sess[s] EXCEPT !.aggregated_categories = it.val,
                                            !.attempt = NextAttempt(@)]
       IN  Advance(s, "part", out, ReachesProvider(part_call_kwargs), loc)
    /\ part_oracle' = [part_oracle EXCEPT ![s][sess[s].attempt] = out]
    /\ UNCHANGED <<request, ack, store, posts>>

(***************************************************************************)
(* Result sink: persistence (lines 373-395, db.save_machine_analysis).     *)
(***************************************************************************)
save_machine_analysis_params ==
    {"session_id", "serial_number", "image_id", "form_id", "question_id",
     "category", "part_category", "final_answer"}

\* the keyword arguments process_image passes to save_machine_analysis
save_call_kwargs ==
    {"session_id", "serial_number", "image_id", "form_id", "question_id",
     "webhook_url", "image_url", "category", "part_category", "final_answer"}

RECURSIVE JoinComma(_)
\* ", ".join(part_categories)
JoinComma(cats) ==
    IF cats = <<>> THEN ""
    ELSE IF Len(cats) = 1 THEN cats[1]
    ELSE cats[1] \o ", " \o JoinComma(Tail(cats))

Row(s, loc) ==
    [session_id |-> s, serial_number |-> request[s].serial_number,
     image_id |-> request[s].image_id, form_id |-> request[s].form_id,
     question_id |-> request[s].question_id, category |-> loc.category,
     part_category |-> JoinComma(loc.part_categories),
     final_answer |-> loc.final_answer]

StoreOutcomes == {Outcome(TRUE, 0, EmptyText), Outcome(FALSE, 0, EmptyText)}

\* Python binds the arguments before the body runs; the function has no
\* defaults and no **kwargs
BindsSave(kwargs) == kwargs = save_machine_analysis_params

\* the call of save_machine_analysis: returns None or raises
save_machine_analysis(kwargs, out) ==
    IF ~BindsSave(kwargs)
    THEN Raise(Exc("TypeError",
                   "save_machine_analysis() got an unexpected keyword argument 'webhook_url'"))
    ELSE Ok(JNull)

\* whether the insert is committed: the body's try / except logs any failure
Inserted(kwargs, out) == BindsSave(kwargs) /\ out.ok

Save_twice(s, out) ==
    /\ sess[s].pc = "save"
    /\ LET r == save_machine_analysis(save_call_kwargs, out)
           loc0 == [sess[s] EXCEPT !.reached_save = TRUE]
           loc == IF ~sess[s].reached_save THEN loc0
                  ELSE IF r.ok
                  THEN [loc0 EXCEPT
                          !.callback_payload =
                              CallbackPayload(s, request[s], loc0.final_answer,
                                              "done", loc0.part_categories),
                          !.pc = "callback"]
                  ELSE Failed(s, loc0, r.exc)
       IN  /\ Advance(s, "store", out, BindsSave(save_call_kwargs), loc)
           /\ store' = IF Inserted(save_call_kwargs, out)
                       THEN store \cup {Row(s, sess[s])} ELSE store
    /\ UNCHANGED <<request, ack, part_oracle, posts>>

Save(s, out) ==
    /\ sess[s].pc = "save"
    /\ LET r == save_machine_analysis(save_call_kwargs, out)
           loc0 == [sess[s] EXCEPT !.reached_save = TRUE]
           loc == IF r.ok
                  THEN [loc0 EXCEPT
                          !.callback_payload =
                              CallbackPayload(s, request[s], loc0.final_answer,
                                              "done", loc0.part_categories),
                          !.pc = "callback"]
                  ELSE Failed(s, loc0, r.exc)
       IN  /\ Advance(s, "store", out, BindsSave(save_call_kwargs), loc)
           /\ store' = IF Inserted(save_call_kwargs, out)
                       THEN store \cup {Row(s, sess[s])} ELSE store
    /\ UNCHANGED <<request, ack, part_oracle, posts>>

(***************************************************************************)
(* Result sink: callback (line 412, openai_client.send_callback).          *)
(***************************************************************************)
CallbackOutcomes ==
    {Outcome(TRUE, 200, EmptyText), Outcome(TRUE, 500, EmptyText),
     Outcome(FALSE, 0, EmptyText)}

send_callback_raising(out) ==
    IF out.ok /\ out.status = 200 THEN Ok(JNull)
    ELSE IF out.ok THEN Raise(Exc("HTTPError", "500 Server Error"))
    ELSE Raise(Exc("ConnectionError", "Connection refused"))

\* send_callback: a transport error of requests.post is caught and logged
send_callback(out) ==
    LET r == IF out.ok THEN Ok(JNull)
                       ELSE Raise(Exc("ConnectionError", "Connection refused"))
    IN  IF r.ok \/ IsSubclass(r.exc.cls, "Exception") THEN Ok(JNull) ELSE r

\* variant: the POST is repeated until the webhook answers 200
AfterCallback_retry(out) ==
    IF out.ok /\ out.status = 200 THEN "finished" ELSE "callback"

\* where process_image is after send_callback returned: the POST is logged
\* and never repeated
AfterCallback(out) == "finished"

SendCallback(s, out) ==
    /\ sess[s].pc = "callback"
    /\ posts' = [posts EXCEPT ![s] =
                    Append(@, [url |-> request[s].webhook_url,
                               payload |-> sess[s].callback_payload,
                               out |-> out])]
    /\ LET r == send_callback(out)
           loc == IF r.ok THEN [sess[s] EXCEPT !.pc = AfterCallback(out)]
                          ELSE [sess[s] EXCEPT !.escaped = TRUE, !.pc = "crashed"]
       IN  Advance(s, "webhook", out, TRUE, loc)
    /\ UNCHANGED <<request, ack, part_oracle, store>>

(***************************************************************************)
(* Specification of one submission.                                        *)
(***************************************************************************)
\* the session a single submission gets
Single == {1}

Next ==
    \E s \in Single :
        \/ \E req \in Requests : AddTask(s, req)
        \/ ReturnAck(s)
        \/ \E out \in FetchOutcomes : FetchImage(s, out)
        \/ \E out \in DispatcherOutcomes : Dispatch(s, out)
        \/ \E out \in AuthenticityOutcomes : Authenticity(s, out)
        \/ \E out \in ExtractionOutcomes : ErrorCodes(s, out)
        \/ \E out \in AnswerOutcomes : Humanize(s, out)
        \/ \E out \in AnswerOutcomes : General(s, out)
        \/ \E out \in PartOutcomes : PartAttempt(s, out)
        \/ \E out \in StoreOutcomes : Save(s, out)
        \/ \E out \in CallbackOutcomes : SendCallback(s, out)

Spec == Init /\ [][Next]_vars

(***************************************************************************)
(* Specification of one submission with fair scheduling.  Every external   *)
(* call eventually returns or raises, so a session that can take a step    *)
(* eventually takes one.  The part classifier answers are drawn from one   *)
(* representative of each shape.                                           *)
(***************************************************************************)
PartOutcomesFair ==
    { ProviderDown,
      ProviderText(TextOf("The part is a tyre.")),
      ProviderText(Bare(JList(<<JStr("LASTIK")>>))),
      ProviderText(Bare(PartsDoc(JNum(7)))),
      ProviderText(Fenced(PartsDoc(JList(<<JStr("LASTIK"), JStr("SASE PARCALARI")>>)))) }

FairNext ==
    \E s \in Single :
        \/ \E req \in Requests : AddTask(s, req)
        \/ ReturnAck(s)
        \/ \E out \in FetchOutcomes : FetchImage(s, out)
        \/ \E out \in DispatcherOutcomes : Dispatch(s, out)
        \/ \E out \in AuthenticityOutcomes : Authenticity(s, out)
        \/ \E out \in ExtractionOutcomes : ErrorCodes(s, out)
        \/ \E out \in AnswerOutcomes : Humanize(s, out)
        \/ \E out \in AnswerOutcomes : General(s, out)
        \/ \E out \in PartOutcomesFair : PartAttempt(s, out)
        \/ \E out \in StoreOutcomes : Save(s, out)
        \/ \E out \in CallbackOutcomes : SendCallback(s, out)

FairSpec == Init /\ [][FairNext]_vars /\ WF_vars(FairNext)

(***************************************************************************)
(* Specification of concurrent submissions.  FastAPI runs each background  *)
(* task on its own; the steps of the sessions interleave in any order.     *)
(* The external answers are drawn from one representative per branch of    *)
(* the pipeline.                                                           *)
(***************************************************************************)
ConcFetchOutcomes == {Outcome(TRUE, 200, EmptyText), Outcome(TRUE, 404, EmptyText)}
ConcDispatcherOutcomes ==
    { ProviderText(Bare(CategoryDoc(WORKING_MACHINE))),
      ProviderText(Fenced(CategoryDoc(ERROR_CODE))),
      ProviderText(Bare(CategoryDoc(OTHER_CATEGORY))) }
ConcAuthenticityOutcomes ==
    { ProviderText(Bare(RealDoc(JBool(TRUE)))),
      ProviderText(Fenced(RealDoc(JBool(FALSE)))) }
ConcExtractionOutcomes ==
    { ProviderText(Fenced(ErrorsDoc(JList(<<ErrorEntry(JStr("100-2"), "CID-FMI")>>),
                                    JStr("engine warning lamp")))) }
ConcAnswerOutcomes ==
    { ProviderDown,
      ProviderText(TextOf("The machine is a wheel loader with a worn tyre.")) }
ConcPartOutcomes == { ProviderText(Bare(PartsDoc(JList(<<JStr("LASTIK")>>)))) }
ConcStoreOutcomes == {Outcome(TRUE, 0, EmptyText)}
ConcCallbackOutcomes == {Outcome(TRUE, 200, EmptyText), Outcome(FALSE, 0, EmptyText)}

ConcNext ==
    \E s \in Sessions :
        \/ \E req \in Requests : AddTask(s, req)
        \/ ReturnAck(s)
        \/ \E out \in ConcFetchOutcomes : FetchImage(s, out)
        \/ \E out \in ConcDispatcherOutcomes : Dispatch(s, out)
        \/ \E out \in ConcAuthenticityOutcomes : Authenticity(s, out)
        \/ \E out \in ConcExtractionOutcomes : ErrorCodes(s, out)
        \/ \E out \in ConcAnswerOutcomes : Humanize(s, out)
        \/ \E out \in ConcAnswerOutcomes : General(s, out)
        \/ \E out \in ConcPartOutcomes : PartAttempt(s, out)
        \/ \E out \in ConcStoreOutcomes : Save(s, out)
        \/ \E out \in ConcCallbackOutcomes : SendCallback(s, out)

ConcSpec == Init /\ [][ConcNext]_vars

TypeOK ==
    \A s \in Sessions :
        /\ sess[s].pc \in {"none", "fetch", "dispatch", "authenticity", "error_codes",
                           "humanize", "general", "part", "save", "callback",
                           "finished", "crashed"}
        /\ sess[s].handler \in {"idle", "added", "returned"}

(***************************************************************************)
(* Properties.                                                             *)
(***************************************************************************)
Ended(s) == sess[s].pc \in {"finished", "crashed"}
HasPayload(s) == sess[s].pc \in {"callback", "finished"}

\* the payload of the success path, built from the locals of session s
DonePayload(s) ==
    CallbackPayload(s, request[s], sess[s].final_answer, "done",
                    sess[s].part_categories)

\* C1: every session makes exactly one callback POST attempt to its
\* webhook_url, never two (no retry after a non-200 answer or a transport
\* error), never zero once it has ended, and the posted status is "done" or
\* "failed".
C1_ExactlyOneCallback ==
    \A s \in Sessions :
        /\ Len(posts[s]) <= 1
        /\ Ended(s) => Len(posts[s]) = 1
        /\ \A i \in 1 .. Len(posts[s]) :
              /\ posts[s][i].payload.status \in {"done", "failed"}
              /\ posts[s][i].url = request[s].webhook_url

\* a session ended after a callback that the webhook answered with 500
C1_Witness ==
    \E s \in Sessions :
        /\ sess[s].pc = "finished"
        /\ Len(posts[s]) = 1
        /\ posts[s][1].out.ok /\ posts[s][1].out.status = 500

\* C2: on the success path (image served with 200, every model response
\* well formed, line 373 reached without an exception) the callback payload
\* has status "done", the analysis answer and the aggregated part categories.
C2_SuccessPathDone ==
    \A s \in Sessions :
        (HasPayload(s) /\ sess[s].reached_save /\ sess[s].wellformed)
            => sess[s].callback_payload = DonePayload(s)

\* C3: after the persistence step, whether the store accepted the insert or
\* not, the callback payload is the success payload: persistence never turns
\* the status to "failed" and never alters answer or part_categories.
C3_PersistenceIndependent ==
    \A s \in Sessions :
        (inp[s].stage = "store" /\ inp[s].out \in StoreOutcomes)
            => /\ sess[s].pc = "callback"
               /\ sess[s].callback_payload.status # "failed"
               /\ sess[s].callback_payload.answer = sess[s].final_answer
               /\ sess[s].callback_payload.part_categories = sess[s].part_categories

\* C4: no exception leaves process_image: whatever is raised in any stage,
\* in persistence or in callback delivery is caught inside the task.
C4_NoEscape ==
    \A s \in Sessions : ~sess[s].escaped /\ sess[s].pc # "crashed"

\* a session whose pipeline raised and whose callback POST raised as well
\* has ended normally
C4_Witness ==
    \E s \in Sessions :
        /\ sess[s].pc = "finished"
        /\ sess[s].callback_payload.status = "failed"
        /\ Len(posts[s]) = 1 /\ ~posts[s][1].out.ok

\* C5: a scheduled session eventually ends with its callback attempt made.
C5_EventuallyCallback ==
    \A s \in Sessions :
        (sess[s].pc = "fetch") ~> (sess[s].pc = "finished" /\ Len(posts[s]) = 1)

\* a session ended after running the whole part classifier loop
C5_Witness ==
    \E s \in Sessions :
        /\ sess[s].pc = "finished"
        /\ sess[s].attempt > PART_CLASSIFIER_ATTEMPTS
        /\ Len(posts[s]) = 1

\* C6: the pipeline of a session makes no external call, and in particular
\* no callback, before describe_image has built the acknowledgment of that
\* session.
C6_AckBeforeCallback ==
    \A s \in Sessions :
        (calls[s] # <<>> \/ posts[s] # <<>>) => ack[s] = Ack(s, request[s])

\* the callback of an acknowledged session has been posted
C6_Witness ==
    \E s \in Sessions :
        /\ posts[s] # <<>>
        /\ ack[s].status = "processing" /\ ack[s].session_id = s

\* the dispatcher answered, but not with a JSON object holding one of the
\* three categories
MalformedDispatch(out) == out.ok /\ ~WellFormed("dispatcher", out)

\* C7: after a malformed dispatcher response the category is working_machine
\* and the session continues with the authenticity check; it has not failed.
C7_MalformedDispatchDefaults ==
    \A s \in Sessions :
        (inp[s].stage = "dispatcher" /\ MalformedDispatch(inp[s].out))
            => /\ sess[s].category = WORKING_MACHINE
               /\ sess[s].pc = "authenticity"

\* the authenticity call failed, its response is no JSON object, or the
\* object has no is_real_photo field
AuthUndecided(out) ==
    LET doc == json_loads(StrStrip(Replace(out.text, {"fence_json", "fence", "nl"})))
    IN  \/ ~out.ok
        \/ ~doc.ok
        \/ doc.val.t # "obj"
        \/ "is_real_photo" \notin DOMAIN doc.val.v

\* C8: when the authenticity check cannot be completed, is_real_photo is
\* true, the category stays working_machine and the session goes on to the
\* general analysis.
C8_AuthenticityFailOpen ==
    \A s \in Sessions :
        (inp[s].stage = "authenticity" /\ AuthUndecided(inp[s].out))
            => /\ sess[s].is_real_photo
               /\ sess[s].category = WORKING_MACHINE
               /\ sess[s].pc = "general"

\* the authenticity call itself failed and the session is at general analysis
C8_Witness ==
    \E s \in Sessions :
        /\ inp[s].stage = "authenticity" /\ ~inp[s].out.ok
        /\ sess[s].pc = "general" /\ sess[s].is_real_photo

\* the valid categories a provider answer holds, in order, without duplicates
ReturnedValid(out) ==
    LET doc == json_loads(StrStrip(Replace(out.text, {"fence_json", "fence", "nl"})))
        field == IF "part_categories" \in DOMAIN doc.val.v
                 THEN doc.val.v["part_categories"] ELSE JList(<<>>)
    IN  IF ~out.ok \/ ~doc.ok \/ doc.val.t # "obj" THEN <<>>
        ELSE IF field.t = "str" THEN Validated(<<field>>, <<>>)
        ELSE IF field.t = "list" THEN Validated(field.v, <<>>)
        ELSE <<>>

RECURSIVE UnionFirstSeen(_)
\* the union of the valid categories of a sequence of provider answers, in
\* first-seen order
UnionFirstSeen(outs) ==
    IF outs = <<>> THEN <<>>
    ELSE Merged(UnionFirstSeen(SubSeq(outs, 1, Len(outs) - 1)),
                ReturnedValid(outs[Len(outs)]))

\* the part classifier loop of session s has made all its attempts
AllAttemptsMade(s) == \A a \in DOMAIN part_oracle[s] : part_oracle[s][a] # NotAsked

\* C9: after the three attempts the part_categories list is the union of
\* the valid categories the attempts returned, in first-seen order.
C9_UnionOfAttempts ==
    \A s \in Sessions :
        (sess[s].pc = "save" /\ AllAttemptsMade(s))
            => sess[s].part_categories = UnionFirstSeen(part_oracle[s])

\* C10: when a part-classifier call fails the other attempts still run,
\* their valid categories are in the final list and the status is "done".
C10_FailedAttemptSkipped ==
    \A s \in Sessions :
        (/\ HasPayload(s)
         /\ \E a \in DOMAIN part_oracle[s] : part_oracle[s][a] = ProviderDown)
            => /\ AllAttemptsMade(s)
               /\ sess[s].callback_payload.status = "done"
               /\ sess[s].callback_payload.part_categories
                    = UnionFirstSeen(part_oracle[s])

\* the provider answered attempt out, and the answer holds no valid category
NothingUsable(out) == out.ok /\ ReturnedValid(out) = <<>>

SeqRange(seq) == {seq[i] : i \in DOMAIN seq}

\* C11: an attempt that yields nothing usable never removes or blocks the
\* contribution of another attempt: once the part stage is over, every
\* valid category returned by any attempt is in part_categories.
C11_UnusableAttemptKeepsOthers ==
    \A s \in Sessions :
        (/\ sess[s].pc = "save"
         /\ \E a \in DOMAIN part_oracle[s] : NothingUsable(part_oracle[s][a]))
            => \A a \in DOMAIN part_oracle[s] :
                   SeqRange(ReturnedValid(part_oracle[s][a]))
                       \subseteq SeqRange(sess[s].part_categories)

\* the image host refused the image of session s: a status other than 200,
\* or no answer at all
FetchFailed(s) ==
    /\ sess[s].fetched # NotAsked
    /\ ~(sess[s].fetched.ok /\ sess[s].fetched.status = 200)

\* the message of the error an image acquisition failure raises
FetchErrorText(out) ==
    IF out.ok THEN TextOf("Image download failed") ELSE TextOf("Connection refused")

\* C12: when the image cannot be acquired no model call and no persistence
\* attempt is made, and the callback has status "failed", no part
\* categories and the error message as answer.
C12_FetchFailureFatal ==
    \A s \in Sessions :
        FetchFailed(s)
            => /\ calls[s] \in {<<"image">>, <<"image", "webhook">>}
               /\ ~sess[s].reached_save
               /\ \A row \in store : row.session_id # s
               /\ HasPayload(s)
               /\ sess[s].callback_payload
                    = CallbackPayload(s, request[s], FetchErrorText(sess[s].fetched),
                                      "failed", <<>>)
               /\ \A i \in DOMAIN posts[s] :
                      posts[s][i].payload = sess[s].callback_payload

\* a session whose image host answered 404 has delivered its callback
C12_Witness ==
    \E s \in Sessions :
        /\ sess[s].fetched = Outcome(TRUE, 404, EmptyText)
        /\ sess[s].pc = "finished"
        /\ Len(posts[s]) = 1
        /\ posts[s][1].payload.answer = TextOf("Image download failed")

\* the dispatcher itself classified the image of session s as "other" (the
\* authenticity override was not involved)
DispatchedOther(s) ==
    /\ sess[s].category = OTHER_CATEGORY
    /\ ~("authenticity" \in SeqRange(calls[s]))

ModelStages == {"dispatcher", "authenticity", "error_codes", "humanize", "general", "part"}
ModelCalls(s) == SelectSeq(calls[s], LAMBDA stage : stage \in ModelStages)

\* C13: when the dispatcher returns "other" no further model call is made
\* and the callback carries the rejection message and no part categories.
C13_OtherShortCircuits ==
    \A s \in Sessions :
        DispatchedOther(s)
            => /\ ModelCalls(s) = <<"dispatcher">>
               /\ HasPayload(s)
                    => /\ sess[s].callback_payload.answer = TextOf(REJECTION_MESSAGE)
                       /\ sess[s].callback_payload.part_categories = <<>>

\* C14: a callback payload with status "failed" has no part categories, the
\* message of the caught exception as answer, and the identifiers of the
\* submission it belongs to.
C14_FailurePayloadShape ==
    \A s \in Sessions :
        (HasPayload(s) /\ sess[s].callback_payload.status = "failed")
            => LET p == sess[s].callback_payload
               IN  /\ p.part_categories = <<>>
                   /\ sess[s].exc # NoExc
                   /\ p.answer = TextOf(sess[s].exc.msg)
                   /\ p.session_id = s
                   /\ p.image_id = request[s].image_id
                   /\ p.serial_number = request[s].serial_number
                   /\ p.form_id = request[s].form_id
                   /\ p.question_id = request[s].question_id
                   /\ \A i \in DOMAIN posts[s] : posts[s][i].payload = p

\* a session that failed after its part classification stage had run has
\* posted its failure payload
C14_Witness ==
    \E s \in Sessions :
        /\ sess[s].pc = "finished"
        /\ posts[s][1].payload.status = "failed"
        /\ sess[s].attempt > PART_CLASSIFIER_ATTEMPTS
        /\ sess[s].exc.cls = "TypeError"
        /\ request[s].form_id = "form-1"

\* the JSON value the extraction answer out holds, if it parses
ExtractionJson(out) == json_loads(Replace(out.text, {"fence_json", "fence", "nl"}))

\* the extraction answer out is a JSON object whose errors field is a list
\* of objects, each of type CID-FMI or EID, whatever their code field holds
TypedEntries(out) ==
    /\ out.ok
    /\ LET parsed == ExtractionJson(out)
       IN  /\ parsed.ok
           /\ parsed.val.t = "obj"
           /\ "errors" \in DOMAIN parsed.val.v
           /\ parsed.val.v["errors"].t = "list"
           /\ parsed.val.v["errors"].v # <<>>
           /\ \A i \in DOMAIN parsed.val.v["errors"].v :
                  LET entry == parsed.val.v["errors"].v[i]
                  IN  /\ entry.t = "obj"
                      /\ "type" \in DOMAIN entry.v
                      /\ entry.v["type"] \in {JStr("CID-FMI"), JStr("EID")}

Descriptions ==
    {eid_description[k] : k \in DOMAIN eid_description}
        \cup {cid_description[c] \o " - " \o fmi_description[f] :
                c \in DOMAIN cid_description, f \in DOMAIN fmi_description}

\* C15: the reference lookup is total: whatever the code of an entry of type
\* CID-FMI or EID, enrichment sets its name to the description or to the
\* sentinel, and never raises.
C15_LookupTotal ==
    \A s \in Sessions :
        (inp[s].stage = "error_codes" /\ TypedEntries(inp[s].out))
            => /\ sess[s].pc = "humanize"
               /\ sess[s].final_json_str # Unset
               /\ LET errors == sess[s].final_json_str.v["errors"].v
                  IN  \A i \in DOMAIN errors :
                          /\ "name" \in DOMAIN errors[i].v
                          /\ errors[i].v["name"].t = "str"
                          /\ errors[i].v["name"].v \in Descriptions \cup {NOT_FOUND}

\* entry i of the extraction answer out is a CID-FMI entry with code "100-2",
\* whose CID and FMI both have a row in the reference tables
KnownCidFmi(out, i) ==
    /\ TypedEntries(out)
    /\ i \in DOMAIN ExtractionJson(out).val.v["errors"].v
    /\ ExtractionJson(out).val.v["errors"].v[i]
         = ErrorEntry(JStr("100-2"), "CID-FMI")

\* C16: on the error_code path the pipeline calls extraction, enriches the
\* entries from the reference tables (a code "c-f" with both rows present
\* gets "<CID description> - <FMI description>"), calls humanize with the
\* enriched list, takes the humanize output as the final answer and then
\* enters part classification; the authenticity check is never invoked.
C16_ErrorCodePath ==
    \A s \in Sessions :
        sess[s].category = ERROR_CODE
            => /\ ~("authenticity" \in SeqRange(calls[s]))
               /\ ~("general" \in SeqRange(calls[s]))
               /\ sess[s].pc = "error_codes" => ModelCalls(s) = <<"dispatcher">>
               /\ sess[s].pc = "humanize"
                    => /\ ModelCalls(s) = <<"dispatcher", "error_codes">>
                       /\ inp[s].stage = "error_codes"
                       /\ \A i \in DOMAIN sess[s].final_json_str.v["errors"].v :
                              KnownCidFmi(inp[s].out, i)
                                  => sess[s].final_json_str.v["errors"].v[i]
                                       = SetName(ErrorEntry(JStr("100-2"), "CID-FMI"),
                                                 cid_description[100] \o " - "
                                                     \o fmi_description[2])
               /\ (inp[s].stage = "humanize" /\ inp[s].out.ok)
                    => /\ ModelCalls(s) = <<"dispatcher", "error_codes", "humanize">>
                       /\ sess[s].final_answer = inp[s].out.text
                       /\ sess[s].pc = "part"
                       /\ sess[s].attempt = 1
               /\ sess[s].attempt > 0
                    => SubSeq(ModelCalls(s), 1, 3)
                         = <<"dispatcher", "error_codes", "humanize">>

\* an error_code session whose code 100-2 was enriched and humanized is in
\* its part classification loop
C16_Witness ==
    \E s \in Sessions :
        /\ sess[s].category = ERROR_CODE
        /\ sess[s].final_json_str # Unset
        /\ sess[s].final_json_str.v["errors"].t = "list"
        /\ \E i \in DOMAIN sess[s].final_json_str.v["errors"].v :
               sess[s].final_json_str.v["errors"].v[i]
                   = SetName(ErrorEntry(JStr("100-2"), "CID-FMI"),
                             "Engine Speed Sensor - Data erratic")
        /\ sess[s].pc = "part"
        /\ sess[s].attempt = 2
        /\ sess[s].final_answer # EmptyText

\* the extraction answer out is not the JSON object with a list of objects
\* the prompt asks for: invalid JSON, a top level that is not an object, an
\* errors field that is null or not a list, or entries that are not objects
MalformedExtraction(out) ==
    /\ out.ok
    /\ LET parsed == ExtractionJson(out)
       IN  \/ ~parsed.ok
           \/ parsed.val.t # "obj"
           \/ /\ "errors" \in DOMAIN parsed.val.v
              /\ \/ parsed.val.v["errors"].t # "list"
                 \/ \E i \in DOMAIN parsed.val.v["errors"].v :
                        parsed.val.v["errors"].v[i].t # "obj"

\* C17: a malformed extraction answer degrades to an empty or default error
\* list: the humanize call is still made and the session does not fail.
C17_MalformedExtractionRecovers ==
    \A s \in Sessions :
        (inp[s].stage = "error_codes" /\ MalformedExtraction(inp[s].out))
            => /\ sess[s].pc = "humanize"
               /\ sess[s].callback_payload.status # "failed"

Categories == {WORKING_MACHINE, ERROR_CODE, OTHER_CATEGORY}

\* C18: once the dispatch stage has assigned it, the category of a session
\* is working_machine, error_code or other, also in the arguments of the
\* persistence call and in every stored row.
C18_CategoryClosed ==
    /\ \A s \in Sessions :
           sess[s].category # Unset => sess[s].category \in Categories
    /\ \A row \in store : row.category \in Categories

AnalysisStages == {"error_codes", "humanize", "general"}
GatewayFailure == Exc("Exception", "OpenAI API call failed")

\* C20: a Model Gateway failure in an analysis stage (extraction, humanize,
\* general analysis) is fatal: the callback has status "failed" with the
\* error message as answer, no part classification attempt is made and no
\* record is persisted.  A failure of the authenticity call or of the call
\* of a single part classification attempt is not fatal.
C20_AnalysisFailureFatal ==
    \A s \in Sessions :
        /\ (inp[s].stage \in AnalysisStages /\ ~inp[s].out.ok)
             => /\ sess[s].pc = "callback"
                /\ sess[s].exc = GatewayFailure
        /\ (HasPayload(s) /\ sess[s].exc = GatewayFailure)
             => /\ sess[s].callback_payload
                     = CallbackPayload(s, request[s], TextOf("OpenAI API call failed"),
                                       "failed", <<>>)
                /\ sess[s].attempt = 0
                /\ \A a \in DOMAIN part_oracle[s] : part_oracle[s][a] = NotAsked
                /\ ~sess[s].reached_save
                /\ \A row \in store : row.session_id # s
                /\ \A i \in DOMAIN posts[s] :
                       posts[s][i].payload = sess[s].callback_payload
        /\ (inp[s].stage = "authenticity" /\ ~inp[s].out.ok)
             => /\ sess[s].pc = "general"
                /\ sess[s].exc = NoExc
        /\ (inp[s].stage = "part" /\ ~inp[s].out.ok)
             => /\ sess[s].pc \in {"part", "save"}
                /\ sess[s].exc = NoExc
                /\ sess[s].callback_payload.status # "failed"

\* a session whose humanize call failed has delivered its failure callback
C20_Witness ==
    \E s \in Sessions :
        /\ calls[s] = <<"image", "dispatcher", "error_codes", "humanize", "webhook">>
        /\ sess[s].exc = GatewayFailure
        /\ sess[s].pc = "finished"
        /\ posts[s][1].payload.status = "failed"

\* everything session s owns
Own(s) == <<request[s], ack[s], sess[s], inp[s], part_oracle[s], calls[s], posts[s]>>

\* the rows session s has in the store
OwnRows(s) == {row \in store : row.session_id = s}

\* the callback payload p carries the identifiers of the submission of s
CarriesOwnIds(s, p) ==
    /\ p.session_id = s
    /\ p.image_id = request[s].image_id
    /\ p.serial_number = request[s].serial_number
    /\ p.form_id = request[s].form_id
    /\ p.question_id = request[s].question_id

\* a step changes what one session owns and nothing of any other session
OneSessionSteps ==
    \E s \in Sessions :
        \A t \in Sessions \ {s} :
            /\ UNCHANGED Own(t)
            /\ OwnRows(t)' = OwnRows(t)

OwnIdentifiers ==
    \A s \in Sessions :
        /\ HasPayload(s) => CarriesOwnIds(s, sess[s].callback_payload)
        /\ ack[s] # NoAck => ack[s] = Ack(s, request[s])
        /\ \A i \in DOMAIN posts[s] :
               /\ posts[s][i].url = request[s].webhook_url
               /\ posts[s][i].payload = sess[s].callback_payload
        /\ \A row \in OwnRows(s) : row = Row(s, sess[s])

\* C19: sessions are independent under concurrency: in any interleaving a
\* step of one session leaves every other session's locals, callback and
\* stored rows unchanged, and each callback carries the session_id and the
\* identifiers of its own submission.
C19_SessionsIndependent == []OwnIdentifiers /\ [][OneSessionSteps]_vars

\* two sessions with different submissions are in flight at once: the
\* first has built its callback payload while the second is in its part
\* classification loop
C19_Witness ==
    /\ request[1] # request[2]
    /\ sess[1].pc = "callback"
    /\ sess[1].callback_payload.form_id = "form-1"
    /\ sess[2].pc = "part"
    /\ sess[2].attempt = 2

\* C21: when the dispatcher call itself fails the category defaults to
\* working_machine and the session continues with the authenticity check
\* instead of failing.
C21_DispatchCallFallback ==
    \A s \in Sessions :
        (inp[s].stage = "dispatcher" /\ ~inp[s].out.ok)
            => /\ sess[s].category = WORKING_MACHINE
               /\ sess[s].pc = "authenticity"
               /\ sess[s].callback_payload.status # "failed"

\* the place of each external call in the order of process_image
CallRank(stage) ==
    CASE stage = "image" -> 1
      [] stage = "dispatcher" -> 2
      [] stage = "authenticity" -> 3
      [] stage \in {"error_codes", "general"} -> 4
      [] stage = "humanize" -> 5
      [] stage = "part" -> 6
      [] stage = "store" -> 7
      [] stage = "webhook" -> 8

\* the place of each position of process_image in the same order
PcRank(pc) ==
    CASE pc = "none" -> 0
      [] pc = "fetch" -> 1
      [] pc = "dispatch" -> 2
      [] pc = "authenticity" -> 3
      [] pc \in {"error_codes", "general"} -> 4
      [] pc = "humanize" -> 5
      [] pc = "part" -> 6
      [] pc = "save" -> 7
      [] pc = "callback" -> 8
      [] pc \in {"finished", "crashed"} -> 9

\* the calls session s has made are in pipeline order, each stage but the
\* part classifier at most once, authenticity only for working_machine
CallsOrdered(s) ==
    /\ \A i, j \in DOMAIN calls[s] :
           i < j => \/ CallRank(calls[s][i]) < CallRank(calls[s][j])
                    \/ calls[s][i] = "part" /\ calls[s][j] = "part"
    /\ ~({"error_codes", "general"} \subseteq SeqRange(calls[s]))
    /\ "humanize" \in SeqRange(calls[s]) => "error_codes" \in SeqRange(calls[s])
    /\ "authenticity" \in SeqRange(calls[s])
           => sess[s].category \in {WORKING_MACHINE, OTHER_CATEGORY}
    /\ calls[s] # <<>> => calls[s][1] = "image"
    /\ Len(calls[s]) >= 2 => calls[s][2] \in {"dispatcher", "webhook"}
    /\ \A a \in DOMAIN part_oracle[s] :
           part_oracle[s][a] # NotAsked
               => \A b \in 1 .. a - 1 : part_oracle[s][b] # NotAsked

\* a step of session s moves it forward in the order: to a later stage, or
\* to the next attempt of the part classifier
StageAdvances(s) ==
    sess'[s] # sess[s]
        => \/ PcRank(sess'[s].pc) > PcRank(sess[s].pc)
           \/ /\ sess[s].pc = "part" /\ sess'[s].pc = "part"
              /\ sess'[s].attempt = sess[s].attempt + 1
           \/ \* describe_image returns the acknowledgement
              sess'[s].pc = sess[s].pc /\ sess'[s].handler # sess[s].handler

\* C22: within one session the external calls are sequential and ordered:
\* image fetch, dispatch, authenticity (working_machine only), the analysis
\* call(s), the part classification attempts 1, 2, 3, persistence, callback;
\* no stage runs before a stage that precedes it.
C22_StagesOrdered ==
    /\ [](\A s \in Sessions : CallsOrdered(s))
    /\ [][\A s \in Sessions : StageAdvances(s)]_vars

\* a working_machine session went through every stage and delivered
C22_Witness ==
    \E s \in Sessions :
        /\ calls[s] = <<"image", "dispatcher", "authenticity", "general", "webhook">>
        /\ sess[s].attempt > PART_CLASSIFIER_ATTEMPTS
        /\ sess[s].reached_save
        /\ sess[s].pc = "finished"

\* the authenticity check of session s judged the photo not real and
\* overrode the category
Overridden(s) ==
    /\ sess[s].category = OTHER_CATEGORY
    /\ "authenticity" \in SeqRange(calls[s])

AuthenticityGate(s) ==
    /\ sess[s].pc = "authenticity" => sess[s].category = WORKING_MACHINE
    /\ "authenticity" \in SeqRange(calls[s])
           => sess[s].category \in {WORKING_MACHINE, OTHER_CATEGORY}
    /\ (sess[s].category = WORKING_MACHINE /\ PcRank(sess[s].pc) \in 4 .. 7)
           => "authenticity" \in SeqRange(calls[s])
    /\ Overridden(s)
           => /\ ~sess[s].is_real_photo
              /\ ModelCalls(s) = <<"dispatcher", "authenticity">>
              /\ sess[s].final_answer = TextOf(REJECTION_MESSAGE)
              /\ sess[s].part_categories = <<>>
              /\ HasPayload(s)
                   => sess[s].callback_payload.answer = TextOf(REJECTION_MESSAGE)

\* the only assignments to category: the dispatch stage, and the override
\* working_machine -> other of a photo judged not real
CategoryStep(s) ==
    sess'[s].category # sess[s].category
        => \/ sess[s].pc = "dispatch" /\ sess[s].category = Unset
           \/ /\ sess[s].pc = "authenticity"
              /\ sess[s].category = WORKING_MACHINE
              /\ sess'[s].category = OTHER_CATEGORY
              /\ ~sess'[s].is_real_photo

\* C23: the authenticity check runs if and only if the category after
\* dispatch is working_machine; the only later change of the category is the
\* override to other of a photo judged not real, after which no model call
\* is made and the session answers with the rejection message.
C23_AuthenticityOnlyOverride ==
    /\ [](\A s \in Sessions : AuthenticityGate(s))
    /\ [][\A s \in Sessions : CategoryStep(s)]_vars

\* how many times session s has sent the prompt of stage to the model
Sent(s, stage) == Len(SelectSeq(calls[s], LAMBDA c : c = stage))

\* C24: every prompt but the part classifier's is sent to the model at most
\* once per session; when the analysis of an error_code or working_machine
\* session succeeded the part classifier prompt is sent exactly 3 times,
\* whatever the attempts return; a session makes at most 6 model calls.
C24_RetryPolicy ==
    \A s \in Sessions :
        /\ \A stage \in ModelStages \ {"part"} : Sent(s, stage) <= 1
        /\ Len(ModelCalls(s)) <= 6
        /\ (sess[s].attempt >= 1 /\ PcRank(sess[s].pc) >= 7)
             => Sent(s, "part") = PART_CLASSIFIER_ATTEMPTS

\* cats holds members of the allow-list only, each at most once
AllowListed(cats) ==
    /\ SeqRange(cats) \subseteq VALID_PART_CATEGORIES
    /\ \A i, j \in DOMAIN cats : i # j => cats[i] # cats[j]

\* the lists whose comma-joined form a stored row may hold
AllowLists ==
    {l \in UNION {[1 .. n -> PartNames] : n \in 0 .. Cardinality(PartNames)} :
        AllowListed(l)}

\* the answer out of the part classifier is an object whose part_categories
\* list holds a candidate that is not a string, is blank or is not on the
\* allow-list, next to a valid one
MixedCandidates(out) ==
    /\ out.ok
    /\ LET doc == json_loads(StrStrip(Replace(out.text, {"fence_json", "fence"})))
       IN  /\ doc.ok
           /\ doc.val.t = "obj"
           /\ "part_categories" \in DOMAIN doc.val.v
           /\ doc.val.v["part_categories"].t = "list"
           /\ \E i \in DOMAIN doc.val.v["part_categories"].v :
                  LET item == doc.val.v["part_categories"].v[i]
                  IN  \/ item.t # "str"
                      \/ StripStr(item.v) \notin VALID_PART_CATEGORIES
    /\ ReturnedValid(out) # <<>>

\* C25: in every callback payload and stored row each element of
\* part_categories is on the allow-list and occurs once; an invalid,
\* non-string or blank candidate is dropped without failing the attempt or
\* the session.
C25_AllowList ==
    \A s \in Sessions :
        /\ AllowListed(sess[s].part_categories)
        /\ AllowListed(sess[s].callback_payload.part_categories)
        /\ \A i \in DOMAIN posts[s] :
               AllowListed(posts[s][i].payload.part_categories)
        /\ \A row \in OwnRows(s) :
               \E l \in AllowLists : row.part_category = JoinComma(l)
        /\ (inp[s].stage = "part" /\ MixedCandidates(inp[s].out))
             => /\ sess[s].pc \in {"part", "save"}
                /\ SeqRange(ReturnedValid(inp[s].out))
                     \subseteq SeqRange(sess[s].aggregated_categories)
        /\ (HasPayload(s)
            /\ \E a \in DOMAIN part_oracle[s] : MixedCandidates(part_oracle[s][a]))
             => sess[s].callback_payload.status = "done"

\* the attempts of the part classifier loop session s has made
AttemptsMade(s) == {a \in DOMAIN part_oracle[s] : part_oracle[s][a] # NotAsked}

\* C26: the Model Gateway accepts the temperature override of the part
\* classifier: every attempt reaches the model provider and behaves like any
\* other gateway call (returns the provider's text or raises its error).
C26_TemperatureOverrideAccepted ==
    \A s \in Sessions :
        /\ Sent(s, "part") = Cardinality(AttemptsMade(s))
        /\ \A a \in AttemptsMade(s) :
               call_openai_api(part_call_kwargs, part_oracle[s][a])
                   = call_openai_api({"messages", "session_id"}, part_oracle[s][a])

\* C27: the record handed to the persistence step has exactly the fields
\* the store's insert accepts (session id, serial number, image id, form id,
\* question id, category, comma-joined part categories, final answer), and
\* its category, part categories and answer agree with the session's "done"
\* callback payload.
C27_RecordMatchesInsert ==
    \A s \in Sessions :
        sess[s].reached_save
            => /\ save_machine_analysis(save_call_kwargs, Outcome(TRUE, 0, EmptyText)).ok
               /\ sess[s].callback_payload.status = "done"
               /\ Row(s, sess[s]).final_answer = sess[s].callback_payload.answer
               /\ Row(s, sess[s]).part_category
                    = JoinComma(sess[s].callback_payload.part_categories)
               /\ \A row \in OwnRows(s) : row = Row(s, sess[s])

\* C28: after enrichment every entry of the error list has a name field,
\* the description or the "Description not found" sentinel, whatever the
\* declared type of the entry (also a missing or unknown type).
C28_EveryEntryNamed ==
    \A s \in Sessions :
        (sess[s].final_json_str # Unset
         /\ sess[s].final_json_str.v["errors"].t = "list")
            => \A i \in DOMAIN sess[s].final_json_str.v["errors"].v :
                   LET entry == sess[s].final_json_str.v["errors"].v[i]
                   IN  /\ entry.t = "obj"
                       /\ "name" \in DOMAIN entry.v
                       /\ entry.v["name"].t = "str"
                       /\ entry.v["name"].v \in Descriptions \cup {NOT_FOUND}

\* the authenticity answer out is a JSON object with an is_real_photo field
HasRealField(out) ==
    /\ out.ok
    /\ LET doc == json_loads(StrStrip(Replace(out.text, {"fence_json", "fence", "nl"})))
       IN  doc.ok /\ doc.val.t = "obj" /\ "is_real_photo" \in DOMAIN doc.val.v

RealField(out) ==
    json_loads(StrStrip(Replace(out.text, {"fence_json", "fence", "nl"})))
        .val.v["is_real_photo"]

\* the strings that read "true", "yes" or "1" once trimmed and lower-cased
TruthyStrings == {"true", "yes", "1", " Yes ", "TRUE"}

\* C29: is_real_photo is the field's own value for a boolean; for a string
\* it is true exactly when the trimmed, lower-cased text is "true", "yes" or
\* "1"; for a number exactly when it is non-zero; for any other value
\* (null, list, object) it stays true.  A photo not real forces category
\* other.
C29_AuthenticityCoercion ==
    \A s \in Sessions :
        (inp[s].stage = "authenticity" /\ HasRealField(inp[s].out))
            => LET val == RealField(inp[s].out)
               IN  /\ val.t = "bool" => sess[s].is_real_photo = val.v
                   /\ val.t = "str"
                        => sess[s].is_real_photo = (val.v \in TruthyStrings)
                   /\ val.t = "num" => sess[s].is_real_photo = (val.v # 0)
                   /\ val.t \notin {"bool", "str", "num"} => sess[s].is_real_photo
                   /\ sess[s].is_real_photo
                        => /\ sess[s].category = WORKING_MACHINE
                           /\ sess[s].pc = "general"
                   /\ ~sess[s].is_real_photo
                        => /\ sess[s].category = OTHER_CATEGORY
                           /\ sess[s].final_answer = TextOf(REJECTION_MESSAGE)
                           /\ sess[s].pc = "save"

\* the string "unknown" made the photo not real and the category other
C29_Witness ==
    \E s \in Sessions :
        /\ inp[s].stage = "authenticity"
        /\ HasRealField(inp[s].out)
        /\ RealField(inp[s].out) = JStr("unknown")
        /\ ~sess[s].is_real_photo
        /\ sess[s].category = OTHER_CATEGORY

\* what session s has done with the store so far
PersistenceOnce(s) ==
    /\ Sent(s, "store") <= 1
    /\ Cardinality(OwnRows(s)) <= 1
    /\ ~sess[s].reached_save => OwnRows(s) = {} /\ Sent(s, "store") = 0
    /\ (HasPayload(s) /\ sess[s].callback_payload.status = "failed")
         => OwnRows(s) = {}
    /\ sess[s].pc = "save" => ~sess[s].reached_save /\ sess[s].exc = NoExc
    /\ posts[s] # <<>> => sess[s].pc \in {"finished", "crashed"}

\* the persistence step of session s is taken from the success path, before
\* the callback, and the store is written by that step only
PersistenceStep(s) ==
    /\ sess'[s].reached_save # sess[s].reached_save
         => /\ sess[s].pc = "save"
            /\ ~sess[s].reached_save
            /\ sess[s].exc = NoExc
            /\ posts[s] = <<>>
            /\ sess'[s].pc = "callback"
    /\ OwnRows(s)' # OwnRows(s)
         => /\ sess[s].pc = "save"
            /\ posts[s] = <<>>
            /\ posts'[s] = <<>>
    /\ (sess[s].pc = "save" /\ sess'[s] # sess[s]) => sess'[s].pc = "callback"

\* C30: persistence is attempted at most once per session, only on the
\* success path and before the callback; a session that failed in an
\* earlier step never inserts, and nothing is inserted after the callback
\* attempt.
C30_PersistenceOnceBeforeCallback ==
    /\ [](\A s \in Sessions : PersistenceOnce(s))
    /\ [][\A s \in Sessions : PersistenceStep(s)]_vars

\* a session made its one persistence attempt and then its callback
C30_Witness ==
    \E s \in Sessions :
        /\ sess[s].reached_save
        /\ sess[s].pc = "finished"
        /\ Len(posts[s]) = 1
        /\ sess[s].category = ERROR_CODE

\* the dispatcher of session s answered a JSON object whose category is
\* missing, null or a value other than the three known ones
Unrecognised(s) ==
    /\ sess[s].category # Unset
    /\ sess[s].category \notin Categories

\* C31: when the dispatcher's category is missing, null or outside
\* {working_machine, error_code, other} the session runs the general
\* analysis, skips the authenticity check and the part classification, and
\* goes on to result assembly with no part categories and the category
\* unchanged.
C31_UnrecognisedCategoryPath ==
    \A s \in Sessions :
        Unrecognised(s)
            => /\ ModelCalls(s) \in {<<"dispatcher">>, <<"dispatcher", "general">>}
               /\ sess[s].attempt = 0
               /\ AttemptsMade(s) = {}
               /\ sess[s].part_categories = <<>>
               /\ PcRank(sess[s].pc) >= 4
               /\ (inp[s].stage = "general" /\ inp[s].out.ok)
                    => /\ sess[s].pc = "save"
                       /\ sess[s].final_answer = inp[s].out.text
               /\ sess[s].reached_save
                    => Row(s, sess[s]).part_category = ""

\* a step of the part classification stage of session s writes nothing but
\* the loop's own locals and part_categories
PartStageFrame(s) ==
    (sess[s].pc = "part" /\ sess'[s] # sess[s])
        => /\ sess'[s].final_answer = sess[s].final_answer
           /\ sess'[s].category = sess[s].category
           /\ sess'[s].callback_payload = sess[s].callback_payload
           /\ sess'[s].exc = sess[s].exc
           /\ sess'[s].pc \in {"part", "save"}

\* the callback of a session that went through the part classification
\* stage carries the answer of the analysis stage
AnswerKept(s) ==
    (HasPayload(s) /\ sess[s].attempt >= 1)
        => /\ sess[s].final_answer # EmptyText
           /\ sess[s].callback_payload.answer = sess[s].final_answer
           /\ sess[s].callback_payload.status = "done"

\* C32: the part classification stage leaves the answer, the category and
\* the status unchanged, whatever its attempts return or raise: the answer
\* in the callback is the text of the analysis stage and the stage never
\* causes status "failed"; it writes part_categories only.
C32_PartStageFrame ==
    /\ [](\A s \in Sessions : AnswerKept(s))
    /\ [][\A s \in Sessions : PartStageFrame(s)]_vars

\* the callback step of session s changes nothing but the position of the
\* task, whatever the webhook answers, and nothing follows it
CallbackFrame(s) ==
    /\ (sess[s].pc = "callback" /\ sess'[s] # sess[s])
         => /\ [sess'[s] EXCEPT !.pc = sess[s].pc, !.wellformed = sess[s].wellformed]
                 = sess[s]
            /\ sess'[s].pc = "finished"
            /\ calls'[s] = Append(calls[s], "webhook")
            /\ OwnRows(s)' = OwnRows(s)
    /\ sess[s].pc = "finished"
         => /\ UNCHANGED <<sess[s], calls[s], posts[s]>>
            /\ OwnRows(s)' = OwnRows(s)

CallbackDone(s) ==
    inp[s].stage = "webhook"
        => /\ sess[s].pc = "finished"
           /\ ~sess[s].escaped
           /\ calls[s][Len(calls[s])] = "webhook"
           /\ Len(posts[s]) = 1
           /\ posts[s][1].out = inp[s].out

\* C33: the outcome of the callback POST (status 200, another status, or a
\* transport error) has no effect on the session: no external call follows
\* the attempt, the stored record is not changed, and the task ends normally
\* in all three cases.
C33_CallbackOutcomeIgnored ==
    /\ [](\A s \in Sessions : CallbackDone(s))
    /\ [][\A s \in Sessions : CallbackFrame(s)]_vars

\* the webhook was unreachable and the task ended normally
C33_Witness ==
    \E s \in Sessions :
        /\ inp[s].stage = "webhook"
        /\ ~inp[s].out.ok
        /\ sess[s].pc = "finished"
        /\ Len(posts[s]) = 1

=============================================================================
